---- MODULE Spec2Model ----
(***************************************************************************)
(* Model of test-poc.py: the conformance-test runner that walks a tree of  *)
(* profile directories, finds the directories that hold a Good-command     *)
(* subdirectory (find_tests) and validates the Good-* / Bad-* examples of  *)
(* each against the directory's schema (run_test).                         *)
(*                                                                         *)
(* The directory tree, the configuration constants and the environment are *)
(* fixed by Init.  What find_tests never looks at is input read on demand, *)
(* drawn with \E by the action of run_test that reads it: which of the     *)
(* categories Bad-command, Good-response, Bad-response a Test Directory    *)
(* holds, how many schema files it holds, what the schema loader does with *)
(* the first, how many examples a category holds and what each example     *)
(* parses and validates to.                                                *)
(***************************************************************************)
EXTENDS Integers, Sequences, FiniteSets, TLC

\* ---------------------------------------------------------------- bounds
MaxNodes   == 4     \* directories in the tree, the root included
MaxFiles   == 2     \* example files in one category directory
MaxSchemas == 1     \* files of a Test Directory that match the schema extension
MaxRead    == 2     \* example files read in one run of the program

\* ------------------------------------------------------- the directory tree
Nodes == 1..MaxNodes
TEST_ROOT == 1

GoodCommand == "Good-command"

\* for cr in ('command', 'response'): for gb in ('Good', 'Bad'): pdir = f'{gb}-{cr}'
CR == <<"command", "response">>
GB == <<"Good", "Bad">>

PDirName(gb, cr) ==
    CASE gb = "Good" /\ cr = "command"  -> "Good-command"
      [] gb = "Bad"  /\ cr = "command"  -> "Bad-command"
      [] gb = "Good" /\ cr = "response" -> "Good-response"
      [] gb = "Bad"  /\ cr = "response" -> "Bad-response"

\* The i-th iteration (1..4) of the nested loops: cr is the outer loop, gb the inner
\* (LoopSwapped: the loops nested the other way round).
LoopSwapped(i) == [cr |-> CR[((i - 1) % 2) + 1], gb |-> GB[((i - 1) \div 2) + 1]]
Loop(i) == [cr |-> CR[((i - 1) \div 2) + 1], gb |-> GB[((i - 1) % 2) + 1]]

pdirOf(i) == PDirName(Loop(i).gb, Loop(i).cr)

CategoryNames == {"Good-command", "Bad-command", "Good-response", "Bad-response"}

VARIABLES
    parent,         \* parent[n]: the directory that holds directory n (n > 1);
                    \* siblings are numbered in the order the source lists them
    gc,             \* gc[n]: directory n has a subdirectory named Good-command
    VALIDATE_JADN,  \* validation mode
    rootRemote,     \* TRUE iff TEST_ROOT is the GitHub endpoint (ROOT_REPO)
    tokenPresent,   \* TRUE iff os.environ has "GitHubToken"
    pc,             \* position of the script
    error,          \* the uncaught exception that ended the run, or "none"
    stack,          \* pending _ft calls, the next one first
    test_list,      \* find_tests: the list being built / returned
    ftListed,       \* directories find_tests has called list_dir on, in order
    findCalls,      \* number of find_tests invocations
    invoked,        \* arguments of the run_test invocations, in order
    outcome,        \* how each run_test invocation ended, in order
    ti,             \* driver loop: index into the list find_tests returned
    schemas,        \* run_test: len(schemas), the schema files selected
    loadExc,        \* run_test: the exception raised inside the try of lines 104-113
    tdirs,          \* run_test: the category names among the keys of tdirs
    ci,             \* run_test: iteration (1..4) of the category loops
    nfiles,         \* run_test: number of files of the category being walked
    fi,             \* run_test: enumerate index n of the file being processed
    tcount,         \* run_test: defaultdict(int), total instances tested
    ecount,         \* run_test: defaultdict(int), error instances
    out,            \* lines printed by the current run_test invocation
    rtListed,       \* categories whose directory the current run_test has listed
    openStreams,    \* streams run_test obtained from open_file and has not closed
    nRead,          \* example files read so far in this run
    last            \* the example file processed last: its category and content

vars == <<parent, gc, VALIDATE_JADN, rootRemote, tokenPresent, pc, error,
          stack, test_list, ftListed, findCalls, invoked, outcome, ti, schemas,
          loadExc, tdirs, ci, nfiles,
          fi, tcount, ecount, out, rtListed, openStreams, nRead, last>>

config == <<parent, gc, VALIDATE_JADN, rootRemote, tokenPresent>>
findVars == <<stack, test_list, ftListed, findCalls>>
runVars == <<schemas, loadExc, tdirs, ci, nfiles, fi, tcount, ecount, out, rtListed, openStreams, nRead, last>>

Children(d) == {n \in Nodes : n > 1 /\ parent[n] = d}

RECURSIVE Ascending(_)
Ascending(S) ==
    IF S = {} THEN <<>>
    ELSE LET m == CHOOSE x \in S : \A y \in S : x <= y
         IN  <<m>> \o Ascending(S \ {m})

\* list_dir(dirpath)['dirs'], the Good-command entry aside: the subdirectories in
\* the source's own order.  Directories are numbered in the order the underlying
\* source enumerates them (breadth first), so that order is the ascending one.
\* A subdirectory named Bad-command, Good-response or Bad-response is one of
\* these to find_tests, which compares names with 'Good-command' only.
list_dir(d) == Ascending(Children(d))

\* 'Good-command' in {d.name for d in dl['dirs']}
HasGoodCommand(d) == gc[d]

\* ---------------------------------------------------------------- find_tests
\* tests.append(dpath)  (ftRecordFront: tests.insert(0, dpath))
ftRecordFront(tests, d) == <<d>> \o tests
ftRecord(tests, d) == Append(tests, d)

\* One _ft call: what remains to be visited after visiting d
\* (ftDescendAlways: the else of line 93 dropped, every directory is descended)
ftDescendAlways(d, rest) == list_dir(d) \o rest
ftPending(d, rest) ==
    IF HasGoodCommand(d) THEN rest ELSE list_dir(d) \o rest

ftTests(d, tests) ==
    IF HasGoodCommand(d) THEN ftRecord(tests, d) ELSE tests

\* ---------------------------------------------------------------- exceptions
\* JSONDecodeError is a subclass of ValueError; jsonschema's ValidationError is not
IsInstance(exc, cls) ==
    \/ exc = cls
    \/ exc = "JSONDecodeError" /\ cls = "ValueError"

\* run_test, lines 114-119: the except clauses around the schema load, in order
\* (LoadHandlerRaise: without the IndexError clause)
LoadHandlerRaise(exc) ==
    IF exc = "none" THEN "proceed"
    ELSE IF IsInstance(exc, "ValueError") THEN "printError"
    ELSE "propagate"
LoadHandler(exc) ==
    IF exc = "none" THEN "proceed"
    ELSE IF IsInstance(exc, "IndexError") THEN "noSchemas"
    ELSE IF IsInstance(exc, "ValueError") THEN "printError"
    ELSE "propagate"

\* run_test, lines 141-150: the except clauses around one example, in order
ExampleHandler(exc) ==
    IF exc = "none" THEN "pass"
    ELSE IF IsInstance(exc, "ValidationError") THEN "ValidationError"
    ELSE IF IsInstance(exc, "ValueError") THEN "ValueError"
    ELSE IF IsInstance(exc, "JSONDecodeError") THEN "JSONDecodeError"
    ELSE "propagate"

\* What lines 132-137 raise for an example: json.load fails on a malformed
\* document; the engine rejects with ValueError (JADN codec) or ValidationError
\* (JSON Schema)
ExampleRaises(jadnMode, parse, verdict) ==
    IF parse = "malformed" THEN "JSONDecodeError"
    ELSE IF verdict = "accept" THEN "none"
    ELSE IF jadnMode THEN "ValueError" ELSE "ValidationError"

\* ---------------------------------------------------------------- tallies
Get(c, k) == IF k \in DOMAIN c THEN c[k] ELSE 0

\* c[k] += n on a defaultdict(int): the key exists afterwards, also when n = 0
\* (IncSkipZero: the increment guarded by "if n")
IncSkipZero(c, k, n) ==
    IF n = 0 THEN c
    ELSE [x \in (DOMAIN c) \cup {k} |-> IF x = k THEN Get(c, k) + n ELSE c[x]]
Inc(c, k, n) == [x \in (DOMAIN c) \cup {k} |-> IF x = k THEN Get(c, k) + n ELSE c[x]]

EmptyTally == [x \in {} |-> 0]

\* lines 138-139, 142-143, 146-147: the increments of the handler that runs
TotalInc(h) == IF h \in {"pass", "ValidationError", "ValueError"} THEN 1 ELSE 0

\* (ErrorIncAlwaysOnFail: a rejection counted as an error whatever the category)
ErrorIncAlwaysOnFail(h, gb) ==
    CASE h = "pass" -> IF gb = "Bad" THEN 1 ELSE 0
      [] h \in {"ValidationError", "ValueError"} -> 1
      [] OTHER -> 0
ErrorInc(h, gb) ==
    CASE h = "pass" -> IF gb = "Bad" THEN 1 ELSE 0
      [] h \in {"ValidationError", "ValueError"} -> IF gb = "Good" THEN 1 ELSE 0
      [] OTHER -> 0

Touches(h) == h \in {"pass", "ValidationError", "ValueError"}

\* One printed line: what it says, about what, and (the summary only) the ratios
Line(msg, arg) == [msg |-> msg, arg |-> arg, ratios |-> EmptyTally]

\* line 153: {k: str(dict(ecount)[k]) + '/' + str(dict(tcount)[k]) for k in tcount}
SummaryFails(t, e) == ~((DOMAIN t) \subseteq (DOMAIN e))
SummaryLine(t, e) ==
    [msg |-> "Validation Errors", arg |-> "",
     ratios |-> [k \in DOMAIN t |-> <<e[k], t[k]>>]]

NoFile == [pdir |-> "none", gb |-> "none", parse |-> "none", verdict |-> "none",
           handler |-> "none"]

\* ---------------------------------------------------------------- schema load
\* What lines 105-113 can raise once a schema file was selected: jadn.load_any
\* and Codec() are library code given an arbitrary file; json.load raises
\* JSONDecodeError on a malformed file; "OtherError" is any exception that is
\* neither an IndexError nor a ValueError (an OSError, a KeyError, ...)
LoadOutcomes(jadnMode) ==
    IF jadnMode THEN {"none", "ValueError", "IndexError", "OtherError"}
    ELSE {"none", "JSONDecodeError", "OtherError"}

\* schemas[0] on an empty list raises IndexError before anything is opened
LoadRaises(nSchemas, loaded) == IF nSchemas = 0 THEN "IndexError" ELSE loaded

Min(a, b) == IF a <= b THEN a ELSE b

\* ---------------------------------------------------------------- initial state
\* The trees of MaxNodes directories, numbered breadth first from the root
Trees ==
    {t \in [parent : [2..MaxNodes -> Nodes], gc : [Nodes -> BOOLEAN]] :
        /\ \A n \in 2..MaxNodes : t.parent[n] < n
        /\ \A n \in 3..MaxNodes : t.parent[n - 1] <= t.parent[n]}

\* line 122: tdirs = {d.name: d for d in dl['dirs']}, restricted to the category
\* names: Good-command is there (find_tests saw it), the other three may be
TDirChoices == {{GoodCommand} \cup S : S \in SUBSET (CategoryNames \ {GoodCommand})}

Init ==
    /\ \E t \in Trees : parent = t.parent /\ gc = t.gc
    /\ VALIDATE_JADN \in BOOLEAN
    /\ rootRemote \in BOOLEAN
    /\ tokenPresent \in BOOLEAN
    /\ pc = "start"
    /\ error = "none"
    /\ stack = <<>>
    /\ test_list = <<>>
    /\ ftListed = <<>>
    /\ findCalls = 0
    /\ invoked = <<>>
    /\ outcome = <<>>
    /\ ti = 0
    /\ schemas = 0
    /\ loadExc = "none"
    /\ tdirs = {}
    /\ ci = 0
    /\ nfiles = 0
    /\ fi = 0
    /\ tcount = EmptyTally
    /\ ecount = EmptyTally
    /\ out = <<>>
    /\ rtListed = <<>>
    /\ openStreams = 0
    /\ nRead = 0
    /\ last = NoFile

\* ---------------------------------------------------------------- the script
\* line 42: AUTH = {'Authorization': f'token {os.environ["GitHubToken"]}'}
LoadModule ==
    /\ pc = "start"
    /\ IF tokenPresent
         THEN pc' = "main" /\ error' = error
         ELSE pc' = "aborted" /\ error' = "KeyError: GitHubToken"
    /\ UNCHANGED <<config, findVars, invoked, outcome, ti, runVars>>

\* lines 156-157 and 97-98: print the root, call find_tests(TEST_ROOT)
find_tests ==
    /\ pc = "main"
    /\ pc' = "find"
    /\ findCalls' = findCalls + 1
    /\ test_list' = <<>>
    /\ stack' = <<TEST_ROOT>>
    /\ UNCHANGED <<config, error, ftListed, invoked, outcome, ti, runVars>>

\* lines 89-95: one call of _ft
ft ==
    /\ pc = "find"
    /\ stack # <<>>
    /\ LET d == Head(stack) IN
         /\ ftListed' = Append(ftListed, d)
         /\ test_list' = ftTests(d, test_list)
         /\ stack' = ftPending(d, Tail(stack))
    /\ UNCHANGED <<config, pc, error, findCalls, invoked, outcome, ti, runVars>>

\* line 99 and 157: find_tests returns, the for loop starts
find_return ==
    /\ pc = "find"
    /\ stack = <<>>
    /\ pc' = "loop"
    /\ ti' = 1
    /\ UNCHANGED <<config, error, findVars, invoked, outcome, runVars>>

\* lines 157-158 and 103-122: the loop calls run_test on the next Test Directory,
\* which lists it, selects and loads the schema and initialises the tallies
run_test ==
    /\ pc = "loop"
    /\ ti <= Len(test_list)
    /\ \E nSchemas \in 0..MaxSchemas, loaded \in LoadOutcomes(VALIDATE_JADN),
          present \in TDirChoices :
         LET d   == test_list[ti]
             exc == LoadRaises(nSchemas, loaded)
             h   == LoadHandler(exc)
         IN  /\ invoked' = Append(invoked, d)
             /\ schemas' = nSchemas
             /\ loadExc' = exc
             /\ nSchemas = 0 => loaded = "none"
             /\ rtListed' = <<>>
             /\ tcount' = EmptyTally
             /\ ecount' = EmptyTally
             /\ nfiles' = 0
             /\ fi' = 0
             /\ last' = NoFile
             \* the with statement releases the schema stream on every exit
             /\ openStreams' = openStreams
             /\ tdirs' = IF h = "proceed" THEN present ELSE {}
             /\ h # "proceed" => present = {GoodCommand}
             /\ CASE h = "proceed" ->
                      /\ pc' = "cats" /\ ci' = 1 /\ out' = <<>>
                      /\ UNCHANGED <<outcome, ti, error>>
                  [] h = "noSchemas" ->
                      /\ pc' = "loop" /\ ci' = 0 /\ ti' = ti + 1
                      /\ out' = <<Line("No schemas found", "")>>
                      /\ outcome' = Append(outcome, "noSchemas")
                      /\ error' = error
                  [] h = "printError" ->
                      /\ pc' = "loop" /\ ci' = 0 /\ ti' = ti + 1
                      /\ out' = <<Line("error", exc)>>
                      /\ outcome' = Append(outcome, "printError")
                      /\ error' = error
                  [] OTHER ->
                      /\ pc' = "aborted" /\ ci' = 0 /\ ti' = ti
                      /\ out' = <<>>
                      /\ outcome' = Append(outcome, "propagate")
                      /\ error' = exc
    /\ UNCHANGED <<config, findVars, nRead>>

\* lines 123-128 and 151-152: one iteration of the category loops, up to
\* the listing of the category directory
category ==
    /\ pc = "cats"
    /\ ci <= 4
    /\ LET pdir == pdirOf(ci)
       IN  IF pdir \in tdirs
           THEN \E n \in 0..Min(MaxFiles, MaxRead - nRead) :
                  /\ out' = Append(out, Line(pdir, ""))
                  /\ rtListed' = Append(rtListed, pdir)
                  /\ IF n = 0
                       THEN pc' = "cats" /\ ci' = ci + 1 /\ nfiles' = 0 /\ fi' = 0
                       ELSE pc' = "files" /\ ci' = ci /\ nfiles' = n /\ fi' = 1
           ELSE /\ out' = Append(out, Line(pdir, "No tests"))
                /\ pc' = "cats" /\ ci' = ci + 1
                /\ UNCHANGED <<rtListed, nfiles, fi>>
    /\ UNCHANGED <<config, error, findVars, invoked, outcome, ti, schemas, loadExc,
                   tdirs, tcount, ecount, openStreams, nRead, last>>

\* the text printed after the file name by the handler that runs
FileLine(h) ==
    CASE h = "pass" -> Line("", "")
      [] h \in {"ValidationError", "ValueError"} -> Line("Fail", "")
      [] OTHER -> Line("Bad JSON", "")

\* lines 129-150: one example file.  json.load(open_file(f)) reads the stream
\* open_file returns; no statement of run_test closes it
example ==
    /\ pc = "files"
    /\ \E parse \in {"ok", "malformed"}, verdict \in {"accept", "reject"} :
         LET pdir == pdirOf(ci)
             gb   == Loop(ci).gb
             exc  == ExampleRaises(VALIDATE_JADN, parse, verdict)
             h    == ExampleHandler(exc)
         IN  /\ parse = "malformed" => verdict = "reject"
             /\ last' = [pdir |-> pdir, gb |-> gb, parse |-> parse,
                         verdict |-> IF parse = "ok" THEN verdict ELSE "none",
                         handler |-> h]
             /\ nRead' = nRead + 1
             /\ openStreams' = openStreams + 1
             /\ IF h = "propagate"
                  THEN /\ pc' = "aborted" /\ error' = exc
                       /\ UNCHANGED <<tcount, ecount, out, ci, nfiles, fi>>
                  ELSE /\ tcount' = IF Touches(h) THEN Inc(tcount, pdir, TotalInc(h))
                                                  ELSE tcount
                       /\ ecount' = IF Touches(h) THEN Inc(ecount, pdir, ErrorInc(h, gb))
                                                  ELSE ecount
                       /\ out' = Append(out, FileLine(h))
                       /\ error' = error
                       /\ IF fi = nfiles
                            THEN pc' = "cats" /\ ci' = ci + 1 /\ nfiles' = 0 /\ fi' = 0
                            ELSE pc' = "files" /\ ci' = ci /\ nfiles' = nfiles
                                 /\ fi' = fi + 1
    /\ UNCHANGED <<config, findVars, invoked, outcome, ti, schemas, loadExc, tdirs,
                   rtListed>>

\* line 153: print the summary; run_test returns to the loop
summary ==
    /\ pc = "cats"
    /\ ci > 4
    /\ IF SummaryFails(tcount, ecount)
         THEN /\ pc' = "aborted" /\ error' = "KeyError: ecount"
              /\ outcome' = Append(outcome, "propagate")
              /\ UNCHANGED <<out, ti>>
         ELSE /\ pc' = "loop" /\ error' = error
              /\ out' = Append(out, SummaryLine(tcount, ecount))
              /\ outcome' = Append(outcome, "summary")
              /\ ti' = ti + 1
    /\ UNCHANGED <<config, findVars, invoked, schemas, loadExc, tdirs, ci, nfiles, fi,
                   tcount, ecount, rtListed, openStreams, nRead, last>>

\* line 158 was the last statement: the loop is exhausted, the script ends
finish ==
    /\ pc = "loop"
    /\ ti > Len(test_list)
    /\ pc' = "done"
    /\ UNCHANGED <<config, error, findVars, invoked, outcome, ti, runVars>>

Next ==
    \/ LoadModule
    \/ find_tests
    \/ ft
    \/ find_return
    \/ run_test
    \/ category
    \/ example
    \/ summary
    \/ finish

Spec == Init /\ [][Next]_vars

\* ================================================================ properties
Range(q) == {q[i] : i \in DOMAIN q}

IsPrefix(p, q) == Len(p) <= Len(q) /\ \A i \in 1..Len(p) : p[i] = q[i]

LastOutcome == IF outcome = <<>> THEN "none" ELSE outcome[Len(outcome)]

\* run_test has just been called (one more invocation than before)
Called == Len(invoked') = Len(invoked) + 1

\* an example file has just been processed
Processed == nRead' = nRead + 1

\* The expectation a category name states
Expected(pdir) == IF pdir \in {"Good-command", "Good-response"} THEN "accept" ELSE "reject"

OthersUnchanged(c, d, k) ==
    \A x \in CategoryNames \ {k} : (x \in DOMAIN c <=> x \in DOMAIN d) /\ Get(c, x) = Get(d, x)

\* C1: every example that parses adds exactly 1 to its category's total, and adds
\* 1 to its category's errors iff the engine's verdict contradicts the category's
\* expectation (Good rejected, Bad accepted), 0 otherwise; in both modes
C1_TallyFollowsExpectation ==
    [][(Processed /\ last'.parse = "ok") =>
         LET k == last'.pdir IN
           /\ k \in CategoryNames
           /\ Get(tcount', k) = Get(tcount, k) + 1
           /\ Get(ecount', k) =
                Get(ecount, k) + (IF last'.verdict # Expected(k) THEN 1 ELSE 0)
           /\ OthersUnchanged(tcount, tcount', k)
           /\ OthersUnchanged(ecount, ecount', k)]_vars

\* a Bad example was accepted after an earlier example: 1 error of its category
C1_Witness ==
    /\ nRead = 2
    /\ last.parse = "ok" /\ last.pdir = "Bad-response" /\ last.verdict = "accept"
    /\ Get(ecount, "Bad-response") = 1
    /\ Get(tcount, "Good-command") = 1 /\ Get(ecount, "Good-command") = 0

\* C2: an example that fails to parse changes neither tally and is reported as a
\* bad document
C2_MalformedNotTallied ==
    [][(Processed /\ last'.parse = "malformed") =>
         /\ tcount' = tcount
         /\ ecount' = ecount
         /\ out' = Append(out, Line("Bad JSON", ""))]_vars

RECURSIVE Ancestors(_)
Ancestors(d) == IF d = TEST_ROOT THEN {} ELSE {parent[d]} \cup Ancestors(parent[d])

\* the topmost directories that hold a Good-command subdirectory
Topmost == {d \in Nodes : gc[d] /\ \A a \in Ancestors(d) : ~gc[a]}

\* C3: find_tests returns exactly the topmost directories that hold a Good-command
\* subdirectory, each once, and lists nothing beneath a directory it recorded
C3_FindTestsExact ==
    /\ \A i \in DOMAIN ftListed : Ancestors(ftListed[i]) \cap Range(test_list) = {}
    /\ pc \in {"loop", "cats", "files", "done"} =>
         /\ Range(test_list) = Topmost
         /\ Cardinality(Range(test_list)) = Len(test_list)
         /\ Cardinality({d \in Nodes : gc[d]}) = 1 => Len(test_list) = 1

\* two Test Directories found, and a third Good-command bearer lies beneath one
C3_Witness ==
    /\ pc = "done"
    /\ Len(test_list) = 2
    /\ \E d \in Nodes : gc[d] /\ Ancestors(d) \cap Range(test_list) # {}

\* C4: without the token a run against a local root is not aborted; a run against
\* the remote endpoint is aborted
C4_TokenOnlyForRemote ==
    (pc # "start" /\ ~tokenPresent) =>
        IF rootRemote THEN pc = "aborted" ELSE error # "KeyError: GitHubToken"

\* C5: a Test Directory without a schema file gets the 'No schemas found' line
\* and nothing else: no category listed, no example read, no tally, no summary;
\* run_test returns and the loop moves on
C5_NoSchemasSkipsDirectory ==
    [][(Called /\ schemas' = 0) =>
         /\ out' = <<Line("No schemas found", "")>>
         /\ rtListed' = <<>>
         /\ nRead' = nRead
         /\ openStreams' = openStreams
         /\ tcount' = EmptyTally /\ ecount' = EmptyTally
         /\ pc' = "loop" /\ ti' = ti + 1 /\ error' = "none"]_vars

\* in the JSON Schema mode (where only an empty selection raises IndexError) the
\* first Test Directory had no schema and run_test is running on the second
C5_Witness ==
    /\ ~VALIDATE_JADN
    /\ Len(invoked) = 2 /\ outcome = <<"noSchemas">>
    /\ pc = "files"

\* C6: a schema load that fails with a ValueError ends this directory only (the
\* error printed, nothing listed or tallied); a load that fails with any other
\* kind of error aborts the run
C6_LoadErrorsScopedByKind ==
    [][(Called /\ schemas' > 0 /\ loadExc' # "none") =>
         IF loadExc' \in {"ValueError", "JSONDecodeError"}
         THEN /\ pc' = "loop" /\ ti' = ti + 1 /\ error' = "none"
              /\ out' = <<Line("error", loadExc')>>
              /\ rtListed' = <<>>
              /\ tcount' = EmptyTally /\ ecount' = EmptyTally
         ELSE pc' = "aborted" /\ error' = loadExc']_vars

FixedOrder == <<"Good-command", "Bad-command", "Good-response", "Bad-response">>

IsHeader(l) == l.msg \in CategoryNames
IsPresent(c) == c \in tdirs

\* C7: the categories are walked in the fixed order; an absent one is reported as
\* 'No tests', is never listed and never enters the tallies or the summary, and
\* every present one is listed
C7_AbsentCategorySkipped ==
    (pc \in {"cats", "files"} \/ (pc = "loop" /\ LastOutcome = "summary")) =>
        LET k == IF pc = "loop" THEN 4 ELSE IF pc = "files" THEN ci ELSE ci - 1
            walked == SubSeq(FixedOrder, 1, k)
        IN  /\ SelectSeq(out, IsHeader) =
                 [i \in 1..k |->
                     Line(FixedOrder[i],
                          IF FixedOrder[i] \in tdirs THEN "" ELSE "No tests")]
            /\ rtListed = SelectSeq(walked, IsPresent)
            /\ (DOMAIN tcount) \subseteq tdirs
            /\ (DOMAIN ecount) \subseteq tdirs
            /\ pc = "loop" => DOMAIN out[Len(out)].ratios \subseteq tdirs

\* Bad-command and Good-response are absent; the categories before and after
\* them were both tallied
C7_Witness ==
    /\ pc = "loop" /\ LastOutcome = "summary"
    /\ tdirs = {"Good-command", "Bad-response"}
    /\ DOMAIN tcount = {"Good-command", "Bad-response"}

RECURSIVE PreOrder(_)
\* the Test Directories met by a depth-first pre-order walk of the directories q
PreOrder(q) ==
    IF q = <<>> THEN <<>>
    ELSE (IF gc[Head(q)] THEN <<Head(q)>> ELSE PreOrder(Ascending(Children(Head(q)))))
         \o PreOrder(Tail(q))

\* C8: find_tests is invoked once; run_test is invoked only after it returned,
\* once per Test Directory, in the order of the list, which is the depth-first
\* pre-order in listing order
C8_DiscoveryThenRunInOrder ==
    /\ findCalls <= 1
    /\ pc \in {"find", "loop", "cats", "files", "done"} => findCalls = 1
    /\ pc \in {"start", "main", "find"} => invoked = <<>>
    /\ pc \in {"loop", "cats", "files", "done"} => test_list = PreOrder(<<TEST_ROOT>>)
    /\ IsPrefix(invoked, test_list)
    /\ pc \in {"cats", "files"} => Len(invoked) = ti
    /\ pc = "loop" => Len(invoked) = ti - 1
    /\ pc = "done" => invoked = test_list

\* two Test Directories, the deeper one listed first although numbered later
C8_Witness ==
    /\ pc = "done"
    /\ Len(invoked) = 2
    /\ invoked[1] > invoked[2]

C10_StreamsReleased == openStreams = 0

====
